---- MODULE Spec2Model ----
(***************************************************************************)
(* A model of async-tls (src/src/lib.rs): the TlsState half-close state    *)
(* machine, the TlsConnector / TlsAcceptor factories and the Connect /     *)
(* Accept futures.  The modules client, server and common (lib.rs:5-7)     *)
(* hold the handshake driver and the established stream; their operations  *)
(* are modelled from the design document, sections 4.1 to 4.3.             *)
(***************************************************************************)
EXTENDS Integers, Sequences, FiniteSets

VARIABLES
    connector,  \* the TlsConnector: [inner, early_data]            (lib.rs:64-68)
    acceptor,   \* the TlsAcceptor: [inner]                          (lib.rs:72-74)
    built,      \* how the caller built the connector, and from which configuration
    sessions,   \* every Session the rustls constructors have created, by identity
    conns,      \* every Connect / Accept future returned, with the TlsStream it holds
    ncalls,     \* transports the caller has handed to connect / accept so far
    last,       \* what the most recent call returned and the Transport I/O it made
    st0,        \* a free-standing TlsState: its starting value,
    st,         \*   its current value,
    ops,        \*   and the shutdown requests applied to it so far
    pipe,       \* the in-memory pipes: per transport end, the ciphertext waiting
                \*   to be read from it (no entry: the peer is remote)
    written,    \* per pipe end, the plaintext its caller has written so far
    received    \*   and the plaintext its caller has read so far

vars == <<connector, acceptor, built, sessions, conns, ncalls, last, st0, st, ops,
          pipe, written, received>>

pairVars == <<pipe, written, received>>

mainVars == <<connector, acceptor, built, sessions, conns, ncalls, last, pairVars>>

stateVars == <<st0, st, ops>>

----------------------------------------------------------------------------
(* Bounds of the model. *)

\* connect / accept calls made in one behaviour of Spec
MaxCalls == 1

\* connect / accept calls made in one behaviour of SpecFutures
MaxFutures == 2

\* shutdown requests applied to the free-standing TlsState
MaxOps == 4

----------------------------------------------------------------------------
(* enum TlsState, built with the early-data feature (lib.rs:22-30). *)

TlsState == {"EarlyData", "Stream", "ReadShutdown", "WriteShutdown", "FullyShutdown"}

\* a shutdown_read that shuts both halves
shutdown_read_eager(self) ==
    "FullyShutdown"

\* a shutdown_read that does nothing while early data is being sent
shutdown_read_keeps_early(self) ==
    IF self = "EarlyData"
    THEN "EarlyData"
    ELSE IF self \in {"WriteShutdown", "FullyShutdown"}
         THEN "FullyShutdown"
         ELSE "ReadShutdown"

\* a shutdown_read that forgets the write half was already shut
shutdown_read_forgets(self) ==
    "ReadShutdown"

shutdown_read(self) ==
    IF self \in {"WriteShutdown", "FullyShutdown"}
    THEN "FullyShutdown"
    ELSE "ReadShutdown"

\* a shutdown_write that shuts both halves
shutdown_write_eager(self) ==
    "FullyShutdown"

\* a shutdown_write that forgets the read half was already shut
shutdown_write_forgets(self) ==
    "WriteShutdown"

shutdown_write(self) ==
    IF self \in {"ReadShutdown", "FullyShutdown"}
    THEN "FullyShutdown"
    ELSE "WriteShutdown"

\* a writeable with no arm for the shut states
writeable_always(self) ==
    TRUE

\* a writeable that matches only WriteShutdown
writeable_misses_full(self) ==
    self # "WriteShutdown"

writeable(self) ==
    IF self \in {"WriteShutdown", "FullyShutdown"} THEN FALSE ELSE TRUE

\* a readable that matches only ReadShutdown
readable_misses_full(self) ==
    self # "ReadShutdown"

readable(self) ==
    IF self \in {"ReadShutdown", "FullyShutdown"} THEN FALSE ELSE TRUE

----------------------------------------------------------------------------
(* Configurations and the factories (lib.rs:62-115). *)

\* webpki_roots::TLS_SERVER_ROOTS, the embedded public roots (lib.rs:97)
TLS_SERVER_ROOTS == {"root1", "root2"}

\* ClientConfig::new(): a configuration whose root store is empty (lib.rs:94)
ClientConfig_new == [root_store |-> {}]

\* the configurations a caller may build and hand over: one with no
\* anchors, one with the anchors of a PEM file of its own
ClientConfigs ==
    {[root_store |-> {}], [root_store |-> {"pem"}]}

\* the server configuration the caller wraps
ServerConfigs == {[cert |-> "server-cert"]}

\* impl From<Arc<ClientConfig>> for TlsConnector (lib.rs:76-84)
TlsConnector_from(inner) ==
    [inner |-> inner, early_data |-> FALSE]

\* impl From<Arc<ServerConfig>> for TlsAcceptor (lib.rs:86-90)
TlsAcceptor_from(inner) ==
    [inner |-> inner]

\* a default() that leaves the root store as ClientConfig::new() made it
TlsConnector_default_no_roots ==
    TlsConnector_from(ClientConfig_new)

\* impl Default for TlsConnector (lib.rs:92-100)
TlsConnector_default ==
    LET config == [ClientConfig_new EXCEPT
                       !.root_store = @ \cup TLS_SERVER_ROOTS]
    IN  TlsConnector_from(config)

\* TlsConnector::new (lib.rs:103-105)
TlsConnector_new == TlsConnector_default

----------------------------------------------------------------------------
(* Inputs of connect: server names, as sequences of characters. *)

Letters == {"a", "b"}

Digits == {"1"}

\* the names the model tries: one that is a DNS name and five that are not
Domains ==
    { <<"a", ".", "b">>,
      <<>>, <<"-", "a">>, <<"a", "-">>, <<"a", ".", ".", "b">>, <<"1">> }

\* the labels of a name: the maximal runs of characters between dots
RECURSIVE Labels(_)
Labels(d) ==
    IF \A i \in 1..Len(d) : d[i] # "."
    THEN <<d>>
    ELSE LET k == CHOOSE i \in 1..Len(d) :
                      d[i] = "." /\ \A j \in 1..(i - 1) : d[j] # "."
         IN  <<SubSeq(d, 1, k - 1)>> \o Labels(SubSeq(d, k + 1, Len(d)))

\* webpki's DNSNameRef::try_from_ascii_str, as called at lib.rs:135: a name
\* is a non-empty dot-separated list of non-empty labels of letters, digits
\* and hyphens, no label starting or ending with a hyphen, the last label
\* not all digits
DNSNameRef_try_from_ascii_str(domain) ==
    LET labels == Labels(domain)
        lastLabel == labels[Len(labels)]
        valid ==
            /\ Len(domain) > 0
            /\ \A i \in 1..Len(domain) :
                   domain[i] \in Letters \cup Digits \cup {"-", "."}
            /\ \A k \in 1..Len(labels) :
                   /\ Len(labels[k]) > 0
                   /\ labels[k][1] # "-"
                   /\ labels[k][Len(labels[k])] # "-"
            /\ \E i \in 1..Len(lastLabel) : lastLabel[i] \notin Digits
    IN  [ok |-> valid, name |-> IF valid THEN domain ELSE <<>>]

----------------------------------------------------------------------------
(* Sessions and the customization callback (lib.rs:137-138, 186-187). *)

\* the callbacks a caller may pass: |_| () and one that adds an ALPN protocol
Callbacks == {"noop", "push_alpn"}

\* f(&mut session)
Call(f, session) ==
    IF f = "push_alpn"
    THEN [session EXCEPT !.alpn = Append(@, "h2")]
    ELSE session

\* the ciphertext of the handshake: the flight the client sends first and
\* the flight the server answers with
ClientFlight == <<"c1", "c2">>

ServerFlight == <<"s1", "s2">>

\* ClientSession::new(&self.inner, domain): a session that has its first
\* flight to send.  tx is the ciphertext the session has produced and the
\* Transport has not taken yet, rx the part of the awaited flight it has
\* been fed
ClientSession_new(config, domain) ==
    [side |-> "client", config |-> config, domain |-> domain, alpn |-> <<>>,
     hs |-> "Start", tx |-> ClientFlight, rx |-> <<>>, close_notify |-> 0]

\* ServerSession::new(&self.inner): a session that waits for the peer
ServerSession_new(config) ==
    [side |-> "server", config |-> config, domain |-> <<>>, alpn |-> <<>>,
     hs |-> "Start", tx |-> <<>>, rx |-> <<>>, close_notify |-> 0]

\* a constructor that hands out the session made by the previous call again
SessionId_reused ==
    IF Len(sessions) = 0 THEN 1 ELSE Len(sessions)

\* the identity of the value a session constructor returns: a new object
SessionId_new ==
    Len(sessions) + 1

\* the session heap with object id holding s
Store(heap, id, s) ==
    IF id = Len(heap) + 1 THEN Append(heap, s) ELSE [heap EXCEPT ![id] = s]

\* let mut session = ClientSession::new(&self.inner, domain); f(&mut session);
ClientSession_with(domain, f) ==
    Call(f, ClientSession_new(connector.inner, domain))

\* accept_with calling f twice
ServerSession_with_f_twice(f) ==
    Call(f, Call(f, ServerSession_new(acceptor.inner)))

\* let mut session = ServerSession::new(&self.inner); f(&mut session);
ServerSession_with(f) ==
    Call(f, ServerSession_new(acceptor.inner))

----------------------------------------------------------------------------
(* The result of a call, as the caller sees it. *)

NoCall ==
    [op |-> "none", conn |-> 0, result |-> "none", io_reads |-> 0, io_writes |-> 0,
     data |-> <<>>]

Returned(op, conn, result) ==
    [NoCall EXCEPT !.op = op, !.conn = conn, !.result = result]

----------------------------------------------------------------------------
(* The state after construction. *)

Init ==
    /\ \/ /\ connector = TlsConnector_new
          /\ built = [how |-> "new", supplied |-> ClientConfig_new]
       \/ \E config \in ClientConfigs :
              /\ connector = TlsConnector_from(config)
              /\ built = [how |-> "from", supplied |-> config]
    /\ \E config \in ServerConfigs : acceptor = TlsAcceptor_from(config)
    /\ sessions = <<>>
    /\ conns = <<>>
    /\ ncalls = 0
    /\ last = NoCall
    /\ st0 = "Stream"
    /\ st = "Stream"
    /\ ops = <<>>
    /\ pipe = <<>>
    /\ written = <<>>
    /\ received = <<>>

----------------------------------------------------------------------------
(* TlsConnector and TlsAcceptor (lib.rs:102-195). *)

\* TlsConnector::early_data (lib.rs:112-115)
early_data(flag) ==
    /\ connector' = [connector EXCEPT !.early_data = flag]
    /\ last' = Returned("early_data", 0, "Ok")
    /\ UNCHANGED <<acceptor, built, sessions, conns, ncalls, stateVars, pairVars>>

\* connect_with building the session before it looks at the parsed name
connect_with_validates_late(domain, stream, f) ==
    LET parsed == DNSNameRef_try_from_ascii_str(domain)
    IN  /\ stream = ncalls + 1
        /\ ncalls' = stream
        /\ sessions' = Store(sessions, SessionId_new, ClientSession_with(domain, f))
        /\ conns' = conns
        /\ last' = Returned("connect_with", 0,
                            IF parsed.ok THEN "Ok" ELSE "InvalidInput")
        /\ UNCHANGED <<connector, acceptor, built, stateVars, pairVars>>

\* connect_with building the early-data driver around a stream whose state
\* is the ordinary one
connect_with_early_stream(domain, stream, f) ==
    LET parsed == DNSNameRef_try_from_ascii_str(domain)
        id == SessionId_new
        tls == [kind |-> "Connect",
                variant |-> IF connector.early_data
                            THEN "EarlyData" ELSE "Handshaking",
                output |-> "none",
                session |-> id,
                io |-> stream,
                state |-> "Stream",
                early_data |-> <<0, <<>>>>]
    IN  /\ stream = ncalls + 1
        /\ ncalls' = stream
        /\ IF ~parsed.ok
           THEN /\ last' = Returned("connect_with", 0, "InvalidInput")
                /\ UNCHANGED <<sessions, conns>>
           ELSE /\ sessions' = Store(sessions, id,
                                     ClientSession_with(parsed.name, f))
                /\ conns' = Append(conns, tls)
                /\ last' = Returned("connect_with", Len(conns) + 1, "Ok")
        /\ UNCHANGED <<connector, acceptor, built, stateVars, pairVars>>

\* TlsConnector::connect_with (lib.rs:125-169)
connect_with(domain, stream, f) ==
    LET parsed == DNSNameRef_try_from_ascii_str(domain)
        id == SessionId_new
        tls == [kind |-> "Connect",
                variant |-> IF connector.early_data
                            THEN "EarlyData" ELSE "Handshaking",
                output |-> "none",
                session |-> id,
                io |-> stream,
                state |-> IF connector.early_data THEN "EarlyData" ELSE "Stream",
                early_data |-> <<0, <<>>>>]
    IN  /\ stream = ncalls + 1
        /\ ncalls' = stream
        /\ IF ~parsed.ok
           THEN /\ last' = Returned("connect_with", 0, "InvalidInput")
                /\ UNCHANGED <<sessions, conns>>
           ELSE /\ sessions' = Store(sessions, id,
                                     ClientSession_with(parsed.name, f))
                /\ conns' = Append(conns, tls)
                /\ last' = Returned("connect_with", Len(conns) + 1, "Ok")
        /\ UNCHANGED <<connector, acceptor, built, stateVars, pairVars>>

\* TlsConnector::connect (lib.rs:117-122)
connect(domain, stream) ==
    connect_with(domain, stream, "noop")

\* accept_with starting the stream in the early-data state
accept_with_early(stream, f) ==
    LET id == SessionId_new
        tls == [kind |-> "Accept", variant |-> "EarlyData", output |-> "none",
                session |-> id, io |-> stream, state |-> "EarlyData",
                early_data |-> <<0, <<>>>>]
    IN  /\ stream = ncalls + 1
        /\ ncalls' = stream
        /\ sessions' = Store(sessions, id, ServerSession_with(f))
        /\ conns' = Append(conns, tls)
        /\ last' = Returned("accept_with", Len(conns) + 1, "Ok")
        /\ UNCHANGED <<connector, acceptor, built, stateVars, pairVars>>

\* TlsAcceptor::accept_with (lib.rs:181-194)
accept_with(stream, f) ==
    LET id == SessionId_new
        tls == [kind |-> "Accept", variant |-> "Handshaking", output |-> "none",
                session |-> id, io |-> stream, state |-> "Stream",
                early_data |-> <<0, <<>>>>]
    IN  /\ stream = ncalls + 1
        /\ ncalls' = stream
        /\ sessions' = Store(sessions, id, ServerSession_with(f))
        /\ conns' = Append(conns, tls)
        /\ last' = Returned("accept_with", Len(conns) + 1, "Ok")
        /\ UNCHANGED <<connector, acceptor, built, stateVars, pairVars>>

\* TlsAcceptor::accept (lib.rs:173-178)
accept(stream) ==
    accept_with(stream, "noop")

----------------------------------------------------------------------------
(* The multiplexing adapter, the handshake driver and the established      *)
(* stream (modules common, client and server, lib.rs:5-7), after sections  *)
(* 4.1, 4.2 and 4.3 of the design document.                                *)

\* what the Transport and the peer may answer to one adapter invocation:
\* the Transport moves all the bytes there are, or it is not ready, or it
\* fails, or the Session Engine rejects what the peer sent
HandshakeOutcomes == {"progress", "would_block", "io_error", "protocol_error"}

ReadOutcomes == {"data", "eof", "would_block", "io_error", "protocol_error"}

WriteOutcomes == {"ready", "would_block", "io_error"}

\* the plaintext bytes a caller writes, and the record layer on them
PlainBytes == {"p", "q"}

Encrypt(b) == IF b = "p" THEN "P" ELSE "Q"

Decrypt(r) == IF r = "P" THEN "p" ELSE "q"

CloseNotify == "close"

Min(a, b) == IF a <= b THEN a ELSE b

\* a transport that is one end of an in-memory pipe, and the other end
Loopback(t) == t \in DOMAIN pipe

Peer(t) == IF t % 2 = 1 THEN t + 1 ELSE t - 1

\* the pipes after an attempt on transport t that took n bytes from it and
\* handed it the bytes out
Moved(t, n, out) ==
    IF Loopback(t)
    THEN [pipe EXCEPT ![t] = SubSeq(@, n + 1, Len(@)),
                      ![Peer(t)] = @ \o out]
    ELSE pipe

Established(i) ==
    conns[i].output = "Ok"

\* what is left of a session once the stream that owned it is dropped
Dropped(s) ==
    [s EXCEPT !.domain = <<>>, !.alpn = <<>>, !.hs = "Dropped",
              !.tx = <<>>, !.rx = <<>>, !.close_notify = 0]

is_handshaking(s) ==
    s.hs # "Done"

wants_write(s) ==
    s.tx # <<>>

\* the flight a handshaking session waits for
Awaited(s) ==
    IF s.side = "client" THEN ServerFlight ELSE ClientFlight

\* the ciphertext a read attempt of a handshaking connection can obtain:
\* what is in its pipe, or, from a remote peer, the rest of the flight
Incoming(c, s) ==
    IF Loopback(c.io)
    THEN pipe[c.io]
    ELSE SubSeq(Awaited(s), Len(s.rx) + 1, Len(Awaited(s)))

\* 4.1: one bounded unit of progress: at most one Transport write attempt,
\* made when the session has ciphertext to send, and at most one Transport
\* read attempt, made when it waits for the peer.  The Transport takes or
\* delivers all the bytes there are ("progress"), one byte ("partial") or
\* none; the bytes it did not take stay in the session, the bytes it
\* delivered are fed to the session, which rejects a flight that is not the
\* one it waits for
complete_io(s, avail, outcome) ==
    LET writes == IF wants_write(s) THEN 1 ELSE 0
        reads == 1 - writes
        ask == CASE outcome = "progress" -> Len(s.tx) + Len(avail)
                 [] outcome = "partial" -> 1
                 [] OTHER -> 0
        nw == IF wants_write(s) THEN Min(ask, Len(s.tx)) ELSE 0
        nr == IF wants_write(s) THEN 0
              ELSE Min(ask, Min(Len(avail), Len(Awaited(s)) - Len(s.rx)))
        fed == s.rx \o SubSeq(avail, 1, nr)
        malformed == fed # SubSeq(Awaited(s), 1, Len(fed))
        sentAll == nw > 0 /\ nw = Len(s.tx)
        gotAll == nr > 0 /\ fed = Awaited(s)
        after == [s EXCEPT
                     !.tx = IF gotAll
                            THEN IF s.side = "server" THEN ServerFlight ELSE <<>>
                            ELSE SubSeq(@, nw + 1, Len(@)),
                     !.rx = IF gotAll THEN <<>> ELSE fed,
                     !.hs = IF sentAll \/ gotAll
                            THEN IF @ = "Start" THEN "Mid" ELSE "Done"
                            ELSE @]
    IN  CASE outcome = "io_error" ->
                 [session |-> s, result |-> "IoError",
                  io_reads |-> reads, io_writes |-> writes,
                  out |-> <<>>, taken |-> 0]
          [] outcome = "protocol_error" \/ (outcome # "io_error" /\ malformed) ->
                 [session |-> s, result |-> "ProtocolError",
                  io_reads |-> reads, io_writes |-> writes,
                  out |-> <<>>, taken |-> nr]
          [] outcome \notin {"io_error", "protocol_error"}
                 /\ ~malformed /\ nw + nr = 0 ->
                 [session |-> s, result |-> "Pending",
                  io_reads |-> reads, io_writes |-> writes,
                  out |-> <<>>, taken |-> 0]
          [] OTHER ->
                 [session |-> after, result |-> "Progress",
                  io_reads |-> reads, io_writes |-> writes,
                  out |-> SubSeq(s.tx, 1, nw), taken |-> nr]

\* 4.2: one poll of a handshake driver c that holds session s.  An EarlyData
\* driver whose early data buffer is exhausted falls back to the Handshaking
\* rule; the driver invokes the adapter, fails terminally on an error, and
\* yields the stream once the session reports the handshake complete
MidHandshake_next(c, s, avail, outcome) ==
    LET fallen == IF c.variant = "EarlyData" /\ c.early_data[1] >= Len(c.early_data[2])
                  THEN [c EXCEPT !.variant = "Handshaking", !.state = "Stream"]
                  ELSE c
        io == complete_io(s, avail, outcome)
        failed == io.result \in {"IoError", "ProtocolError"}
        ready == ~failed /\ ~is_handshaking(io.session)
    IN  [conn |-> IF failed THEN [fallen EXCEPT !.variant = "End", !.output = "Err"]
                  ELSE IF ready THEN [fallen EXCEPT !.variant = "End", !.output = "Ok"]
                  ELSE fallen,
         session |-> IF failed THEN Dropped(io.session) ELSE io.session,
         result |-> IF failed THEN io.result
                    ELSE IF ready THEN "Ready" ELSE "Pending",
         io_reads |-> io.io_reads, io_writes |-> io.io_writes,
         out |-> io.out, taken |-> io.taken]

\* the state after a poll of connection i that came out as r
Polled(i, r) ==
    /\ sessions' = [sessions EXCEPT ![conns[i].session] = r.session]
    /\ conns' = [conns EXCEPT ![i] = r.conn]
    /\ pipe' = Moved(conns[i].io, r.taken, r.out)
    /\ last' = [Returned("poll", i, r.result)
                   EXCEPT !.io_reads = r.io_reads, !.io_writes = r.io_writes]
    /\ UNCHANGED <<connector, acceptor, built, ncalls, stateVars, written, received>>

MidHandshake_poll(i, outcome) ==
    /\ conns[i].variant # "End"
    /\ Polled(i, MidHandshake_next(conns[i], sessions[conns[i].session],
                                   Incoming(conns[i], sessions[conns[i].session]),
                                   outcome))

\* a Connect that swallows the driver's protocol error and stays pending,
\* to be polled again
Connect_poll_retries(i, outcome) ==
    /\ conns[i].kind = "Connect"
    /\ IF outcome = "protocol_error"
       THEN /\ conns[i].variant # "End"
            /\ last' = [Returned("poll", i, "Pending") EXCEPT !.io_writes = 1]
            /\ UNCHANGED <<connector, acceptor, built, sessions, conns, ncalls,
                           stateVars, pairVars>>
       ELSE MidHandshake_poll(i, outcome)

\* a Connect that, when the driver comes back pending, lets the session
\* start its flight over
Connect_poll_restarts(i, outcome) ==
    LET c == conns[i]
        s == sessions[c.session]
        r == MidHandshake_next(c, s, Incoming(c, s), outcome)
    IN  /\ c.kind = "Connect"
        /\ c.variant # "End"
        /\ Polled(i, IF r.result = "Pending" /\ r.session.hs = "Start"
                     THEN [r EXCEPT !.session.tx = ClientFlight]
                     ELSE r)

\* a Connect that hands out the stream as soon as the driver has been
\* polled once without failing
Connect_poll_hasty(i, outcome) ==
    LET c == conns[i]
        s == sessions[c.session]
        r == MidHandshake_next(c, s, Incoming(c, s), outcome)
    IN  /\ c.kind = "Connect"
        /\ c.variant # "End"
        /\ Polled(i, IF r.result = "Pending"
                     THEN [r EXCEPT !.conn.variant = "End", !.conn.output = "Ok",
                                    !.result = "Ready"]
                     ELSE r)

\* a Connect whose poll returns pending without polling the driver it wraps
Connect_poll_stalls(i, outcome) ==
    /\ conns[i].kind = "Connect"
    /\ conns[i].variant # "End"
    /\ last' = Returned("poll", i, "Pending")
    /\ UNCHANGED <<connector, acceptor, built, sessions, conns, ncalls,
                   stateVars, pairVars>>

\* impl Future for Connect (lib.rs:205-212)
Connect_poll(i, outcome) ==
    /\ conns[i].kind = "Connect"
    /\ MidHandshake_poll(i, outcome)

\* an Accept whose poll polls the driver a second time at once when the
\* first poll came back pending
Accept_poll_spins(i, outcome) ==
    LET c == conns[i]
        s == sessions[c.session]
        avail == Incoming(c, s)
        first == MidHandshake_next(c, s, avail, outcome)
        again == MidHandshake_next(first.conn, first.session,
                                   SubSeq(avail, first.taken + 1, Len(avail)),
                                   outcome)
    IN  /\ c.kind = "Accept"
        /\ c.variant # "End"
        /\ Polled(i, IF first.result # "Pending" THEN first
                     ELSE [again EXCEPT !.io_reads = @ + first.io_reads,
                                        !.io_writes = @ + first.io_writes,
                                        !.out = first.out \o @,
                                        !.taken = @ + first.taken])

\* impl Future for Accept (lib.rs:214-221)
Accept_poll(i, outcome) ==
    /\ conns[i].kind = "Accept"
    /\ MidHandshake_poll(i, outcome)

\* 4.3 read: end-of-stream at once when the read half is shut; otherwise one
\* adapter invocation with one Transport read attempt, which obtains the
\* next record of the pipe or of the remote peer; a data record is decrypted
\* and returned, and the peer's close marks the read half shut
TlsStream_read(i, outcome) ==
    LET c == conns[i]
        avail == IF Loopback(c.io) THEN pipe[c.io]
                 ELSE IF outcome = "data" THEN <<Encrypt("p")>>
                 ELSE IF outcome = "eof" THEN <<CloseNotify>>
                 ELSE <<>>
        blocked == outcome = "would_block" \/ avail = <<>>
        failed == outcome \in {"io_error", "protocol_error"}
        closed == ~failed /\ ~blocked /\ avail[1] = CloseNotify
    IN  /\ Established(i)
        /\ IF ~readable(c.state)
           THEN /\ last' = Returned("read", i, "Eof")
                /\ UNCHANGED <<conns, pipe>>
           ELSE /\ conns' = [conns EXCEPT ![i].state =
                                 IF closed THEN shutdown_read(@) ELSE @]
                /\ pipe' = Moved(c.io, IF failed \/ blocked THEN 0 ELSE 1, <<>>)
                /\ last' = [Returned("read", i,
                                     CASE outcome = "io_error" -> "IoError"
                                       [] outcome = "protocol_error" -> "ProtocolError"
                                       [] ~failed /\ blocked -> "Pending"
                                       [] closed -> "Eof"
                                       [] OTHER -> "Data")
                               EXCEPT !.io_reads = 1,
                                      !.data = IF failed \/ blocked \/ closed
                                               THEN <<>>
                                               ELSE <<Decrypt(avail[1])>>]
        /\ UNCHANGED <<connector, acceptor, built, sessions, ncalls, stateVars>>

\* 4.3 write of the plaintext byte b: fails when the write half is shut;
\* otherwise the adapter makes one Transport write attempt, for the pending
\* ciphertext if there is some (flushing is needed first) and else for the
\* record of b; the session takes b unless ciphertext is still pending
\* after the attempt, and what the Transport did not take stays pending
TlsStream_write(i, b, outcome) ==
    LET c == conns[i]
        sid == c.session
        s == sessions[sid]
        accepted == ~wants_write(s) \/ outcome = "ready"
        queued == s.tx \o (IF accepted THEN <<Encrypt(b)>> ELSE <<>>)
        out == IF outcome # "ready" THEN <<>>
               ELSE IF wants_write(s) THEN s.tx ELSE queued
    IN  /\ Established(i)
        /\ IF ~writeable(c.state)
           THEN /\ last' = Returned("write", i, "ClosedForWriting")
                /\ UNCHANGED <<sessions, pipe>>
           ELSE IF outcome = "io_error"
           THEN /\ last' = [Returned("write", i, "IoError") EXCEPT !.io_writes = 1]
                /\ UNCHANGED <<sessions, pipe>>
           ELSE /\ sessions' = [sessions EXCEPT ![sid].tx =
                                    SubSeq(queued, Len(out) + 1, Len(queued))]
                /\ pipe' = Moved(c.io, 0, out)
                /\ last' = [Returned("write", i,
                                     IF accepted THEN "Written" ELSE "Pending")
                               EXCEPT !.io_writes = 1]
        /\ UNCHANGED <<connector, acceptor, built, conns, ncalls, stateVars>>

\* 4.3 flush on a session: hand the pending ciphertext to the Transport
flush(s, outcome) ==
    IF ~wants_write(s)
    THEN [session |-> s, result |-> "Ok", io_writes |-> 0, out |-> <<>>]
    ELSE CASE outcome = "ready" ->
                  [session |-> [s EXCEPT !.tx = <<>>],
                   result |-> "Ok", io_writes |-> 1, out |-> s.tx]
           [] outcome = "would_block" ->
                  [session |-> s, result |-> "Pending", io_writes |-> 1,
                   out |-> <<>>]
           [] OTHER ->
                  [session |-> s, result |-> "IoError", io_writes |-> 1,
                   out |-> <<>>]

TlsStream_flush(i, outcome) ==
    LET sid == conns[i].session
        res == flush(sessions[sid], outcome)
    IN  /\ Established(i)
        /\ sessions' = [sessions EXCEPT ![sid] = res.session]
        /\ pipe' = Moved(conns[i].io, 0, res.out)
        /\ last' = [Returned("flush", i, res.result)
                       EXCEPT !.io_writes = res.io_writes]
        /\ UNCHANGED <<connector, acceptor, built, conns, ncalls, stateVars,
                       written, received>>

\* 4.3 shutdown: while the write half is open, queue a close-notify and mark
\* the write half shut; then flush
TlsStream_shutdown(i, outcome) ==
    LET c == conns[i]
        sid == c.session
        s == sessions[sid]
        notified == IF writeable(c.state)
                    THEN [s EXCEPT !.close_notify = @ + 1,
                                   !.tx = Append(@, CloseNotify)]
                    ELSE s
        res == flush(notified, outcome)
    IN  /\ Established(i)
        /\ conns' = [conns EXCEPT ![i].state =
                         IF writeable(@) THEN shutdown_write(@) ELSE @]
        /\ sessions' = [sessions EXCEPT ![sid] = res.session]
        /\ pipe' = Moved(c.io, 0, res.out)
        /\ last' = [Returned("shutdown", i, res.result)
                       EXCEPT !.io_writes = res.io_writes]
        /\ UNCHANGED <<connector, acceptor, built, ncalls, stateVars,
                       written, received>>

----------------------------------------------------------------------------
(* The program: a caller using one connector and one acceptor. *)

\* the calls of TlsConnector and TlsAcceptor, each connect and accept on a
\* transport of its own, at most n of them
Calls(n) ==
    \/ \E flag \in BOOLEAN : early_data(flag)
    \/ \E domain \in Domains : ncalls < n /\ connect(domain, ncalls + 1)
    \/ \E domain \in Domains, f \in Callbacks :
           ncalls < n /\ connect_with(domain, ncalls + 1, f)
    \/ ncalls < n /\ accept(ncalls + 1)
    \/ \E f \in Callbacks : ncalls < n /\ accept_with(ncalls + 1, f)

\* the polls of the futures that connect and accept returned
Polls ==
    \/ \E i \in 1..Len(conns), outcome \in HandshakeOutcomes : Connect_poll(i, outcome)
    \/ \E i \in 1..Len(conns), outcome \in HandshakeOutcomes : Accept_poll(i, outcome)

\* the operations on the streams the futures resolved to, the caller
\* writing the given bytes
StreamOps(bytes) ==
    \/ \E i \in 1..Len(conns), outcome \in ReadOutcomes :
           TlsStream_read(i, outcome) /\ UNCHANGED <<written, received>>
    \/ \E i \in 1..Len(conns), b \in bytes, outcome \in WriteOutcomes :
           TlsStream_write(i, b, outcome) /\ UNCHANGED <<written, received>>
    \/ \E i \in 1..Len(conns), outcome \in WriteOutcomes : TlsStream_flush(i, outcome)
    \/ \E i \in 1..Len(conns), outcome \in WriteOutcomes : TlsStream_shutdown(i, outcome)

Next ==
    \/ Calls(MaxCalls)
    \/ Polls
    \/ StreamOps({"p"})

Spec == Init /\ [][Next]_vars

----------------------------------------------------------------------------
(* Callers that make several calls and poll the futures, leaving the       *)
(* streams they resolve to alone.                                          *)

NextFutures ==
    \/ Calls(MaxFutures)
    \/ Polls

SpecFutures == Init /\ [][NextFutures]_vars

----------------------------------------------------------------------------
(* A connector and an acceptor on the two ends of one in-memory pipe: what  *)
(* one end writes to its transport the other end reads from its own.  The   *)
(* pipe takes and delivers all the bytes there are, or one byte, or reports *)
(* would-block; each caller, once its stream is established, writes Message *)
(* to it and reads what the other caller wrote.                             *)

PipeEnds == {1, 2}

Message == <<"p", "q">>

PipeOutcomes == {"progress", "partial", "would_block"}

PipeReadOutcomes == {"data", "would_block"}

PipeWriteOutcomes == {"ready", "would_block"}

InitPair ==
    /\ connector = TlsConnector_new
    /\ built = [how |-> "new", supplied |-> ClientConfig_new]
    /\ \E config \in ServerConfigs : acceptor = TlsAcceptor_from(config)
    /\ sessions = <<>>
    /\ conns = <<>>
    /\ ncalls = 0
    /\ last = NoCall
    /\ st0 = "Stream"
    /\ st = "Stream"
    /\ ops = <<>>
    /\ pipe = [t \in PipeEnds |-> <<>>]
    /\ written = [t \in PipeEnds |-> <<>>]
    /\ received = [t \in PipeEnds |-> <<>>]

\* the caller of stream i writes the next byte of Message
Write_next(i, outcome) ==
    LET t == conns[i].io
        n == Len(written[t])
    IN  /\ n < Len(Message)
        /\ TlsStream_write(i, Message[n + 1], outcome)
        /\ written' = IF last'.result = "Written"
                      THEN [written EXCEPT ![t] = Append(@, Message[n + 1])]
                      ELSE written
        /\ UNCHANGED received

\* the caller of stream i reads, and keeps what the read returned
Read_next(i, outcome) ==
    /\ TlsStream_read(i, outcome)
    /\ received' = [received EXCEPT ![conns[i].io] = @ \o last'.data]
    /\ UNCHANGED written

PipePolls ==
    \/ \E i \in 1..Len(conns), outcome \in PipeOutcomes : Connect_poll(i, outcome)
    \/ \E i \in 1..Len(conns), outcome \in PipeOutcomes : Accept_poll(i, outcome)

PipeStreamOps ==
    \/ \E i \in 1..Len(conns), outcome \in PipeReadOutcomes : Read_next(i, outcome)
    \/ \E i \in 1..Len(conns), outcome \in PipeWriteOutcomes : Write_next(i, outcome)
    \/ \E i \in 1..Len(conns), outcome \in PipeWriteOutcomes : TlsStream_flush(i, outcome)

\* the caller may ask for early data first, then hands one end of the pipe
\* to connect and the other to accept, in either order
PipeCalls ==
    \/ ncalls = 0 /\ early_data(TRUE)
    \/ \E domain \in Domains :
           ncalls < Cardinality(PipeEnds) /\ connect(domain, ncalls + 1)
    \/ ncalls < Cardinality(PipeEnds) /\ accept(ncalls + 1)

NextPair ==
    \/ PipeCalls
    \/ PipePolls
    \/ PipeStreamOps

\* the scheduler wakes a task whose Transport is ready, and the pipe does
\* not for ever refuse bytes it can move: as long as some poll, write, flush
\* or read can move a byte, one that does is made
Moving ==
    /\ \E i \in 1..Len(conns) :
           \/ \E outcome \in {"progress", "partial"} :
                  Connect_poll(i, outcome) \/ Accept_poll(i, outcome)
           \/ Write_next(i, "ready")
           \/ TlsStream_flush(i, "ready")
           \/ Read_next(i, "data")
    /\ <<sessions, pipe, written, received>>' # <<sessions, pipe, written, received>>

Fairness ==
    WF_vars(Moving)

SpecPair == InitPair /\ [][NextPair]_vars /\ Fairness

----------------------------------------------------------------------------
(* TlsState on its own: any starting value, any sequence of requests. *)

InitTlsState ==
    /\ connector = TlsConnector_new
    /\ built = [how |-> "new", supplied |-> ClientConfig_new]
    /\ \E config \in ServerConfigs : acceptor = TlsAcceptor_from(config)
    /\ sessions = <<>>
    /\ conns = <<>>
    /\ ncalls = 0
    /\ last = NoCall
    /\ st0 \in TlsState
    /\ st = st0
    /\ ops = <<>>
    /\ pipe = <<>>
    /\ written = <<>>
    /\ received = <<>>

Do_shutdown_read ==
    /\ Len(ops) < MaxOps
    /\ st' = shutdown_read(st)
    /\ ops' = Append(ops, "shutdown_read")
    /\ UNCHANGED <<st0, mainVars>>

Do_shutdown_write ==
    /\ Len(ops) < MaxOps
    /\ st' = shutdown_write(st)
    /\ ops' = Append(ops, "shutdown_write")
    /\ UNCHANGED <<st0, mainVars>>

NextTlsState ==
    \/ Do_shutdown_read
    \/ Do_shutdown_write

SpecTlsState == InitTlsState /\ [][NextTlsState]_vars

----------------------------------------------------------------------------
(* Properties of TlsState, under SpecTlsState. *)

\* C1: across any sequence of shutdown_read and shutdown_write calls from
\* any TlsState, a direction that is shut never reopens: once readable() is
\* false it stays false, once writeable() is false it stays false.
C1_NeverReopens ==
    [][ /\ ~readable(st) => ~readable(st')
        /\ ~writeable(st) => ~writeable(st') ]_vars

\* a stream whose read half was shut from the start has taken a
\* shutdown_write and still cannot be read
C1_Witness ==
    /\ st0 = "ReadShutdown"
    /\ Len(ops) >= 1
    /\ ops[Len(ops)] = "shutdown_write"
    /\ ~readable(st)
    /\ ~writeable(st)

\* C2: from ReadShutdown a shutdown_write yields FullyShutdown, from
\* WriteShutdown a shutdown_read yields FullyShutdown; so from any starting
\* state the two requests, in either order, end in FullyShutdown.
C2_BothOrders ==
    /\ (st0 = "ReadShutdown" /\ Len(ops) = 1 /\ ops[1] = "shutdown_write")
           => st = "FullyShutdown"
    /\ (st0 = "WriteShutdown" /\ Len(ops) = 1 /\ ops[1] = "shutdown_read")
           => st = "FullyShutdown"
    /\ (Len(ops) = 2 /\ ops[1] # ops[2]) => st = "FullyShutdown"

\* an early-data stream that took shutdown_write and then shutdown_read
C2_Witness ==
    /\ st0 = "EarlyData"
    /\ ops = <<"shutdown_write", "shutdown_read">>
    /\ st = "FullyShutdown"

----------------------------------------------------------------------------
(* Properties of the established stream, under Spec. *)

Errors == {"InvalidInput", "IoError", "ProtocolError", "ClosedForWriting"}

C4_ReadAfterShutdown ==
    [][ \A i \in 1..Len(conns), outcome \in ReadOutcomes :
            (last'.op = "read" /\ TlsStream_read(i, outcome))
            => /\ ~readable(conns[i].state)
                   <=> conns[i].state \in {"ReadShutdown", "FullyShutdown"}
               /\ conns[i].state \in {"ReadShutdown", "FullyShutdown"}
                   => /\ last'.result = "Eof"
                      /\ last'.io_reads = 0
                      /\ last'.io_writes = 0
                      /\ UNCHANGED <<conns, sessions>> ]_vars

\* a read on a fully shut stream returned end-of-stream without I/O
C4_Witness ==
    /\ last.op = "read"
    /\ last.result = "Eof"
    /\ last.io_reads = 0
    /\ conns[last.conn].state = "FullyShutdown"

\* C5: writeable() is false exactly in WriteShutdown and FullyShutdown, and
\* in those states every write fails with the closed-for-writing error, with
\* no Transport read and no Transport write.
C5_WriteAfterShutdown ==
    [][ \A i \in 1..Len(conns), b \in PlainBytes, outcome \in WriteOutcomes :
            (last'.op = "write" /\ TlsStream_write(i, b, outcome))
            => /\ ~writeable(conns[i].state)
                   <=> conns[i].state \in {"WriteShutdown", "FullyShutdown"}
               /\ conns[i].state \in {"WriteShutdown", "FullyShutdown"}
                   => /\ last'.result = "ClosedForWriting"
                      /\ last'.io_reads = 0
                      /\ last'.io_writes = 0
                      /\ UNCHANGED <<conns, sessions>> ]_vars

\* a write on a stream whose write half alone is shut was refused
C5_Witness ==
    /\ last.op = "write"
    /\ last.result = "ClosedForWriting"
    /\ last.io_writes = 0
    /\ conns[last.conn].state = "WriteShutdown"

----------------------------------------------------------------------------
(* Properties of TlsConnector and TlsAcceptor, under SpecFutures. *)

\* the connection a call has just added, and the session it holds
NewConn == conns'[Len(conns')]

NewSession == sessions'[NewConn.session]

\* C6: connect_with on a domain that fails validation returns the
\* invalid-input error before any I/O: no session is constructed (so the
\* callback has nothing to run on), no future is created and the Transport
\* is neither read nor written.
C6_InvalidDomain ==
    [][ \A domain \in Domains, f \in Callbacks :
            ( /\ last'.op = "connect_with"
              /\ ~DNSNameRef_try_from_ascii_str(domain).ok
              /\ connect_with(domain, ncalls + 1, f) )
            => /\ last'.result = "InvalidInput"
               /\ sessions' = sessions
               /\ conns' = conns
               /\ last'.io_reads = 0
               /\ last'.io_writes = 0 ]_vars

\* a connect was refused after an earlier call had built a connection
C6_Witness ==
    /\ last.op = "connect_with"
    /\ last.result = "InvalidInput"
    /\ ncalls = 2
    /\ Len(conns) = 1
    /\ Len(sessions) = 1

\* the caller supplied no trust anchors of its own
NoExplicitAnchors ==
    \/ built.how = "new"
    \/ built.how = "from" /\ built.supplied.root_store = {}

ClientSessions == {j \in 1..Len(sessions) : sessions[j].side = "client"}

\* C7, as claimed: whenever the caller supplies no explicit trust anchors,
\* the connector, however it was constructed, and the sessions it creates
\* use the embedded public roots.
C7_AlwaysEmbeddedRoots ==
    NoExplicitAnchors
        => /\ connector.inner.root_store = TLS_SERVER_ROOTS
           /\ \A j \in ClientSessions :
                  sessions[j].config.root_store = TLS_SERVER_ROOTS

\* C7, amended: a connector made by new / default uses the embedded public
\* roots; a connector converted from a caller-supplied configuration uses
\* that configuration unchanged, whatever its trust anchors, even none; and
\* every session the connector creates is bound to the connector's
\* configuration.
C7_RootsByConstruction ==
    /\ built.how = "new" => connector.inner.root_store = TLS_SERVER_ROOTS
    /\ built.how = "from" => connector.inner = built.supplied
    /\ \A j \in ClientSessions : sessions[j].config = connector.inner

\* a connector converted from a configuration without anchors has created a
\* session, which has no anchors either
C7_Witness ==
    /\ built.how = "from"
    /\ built.supplied.root_store = {}
    /\ \E j \in ClientSessions : sessions[j].config.root_store = {}

\* C8: connect_with and accept_with on a valid input invoke the callback
\* exactly once, on the session constructed for that call, before the
\* handshake driver exists: the future the call returns holds a new session
\* that shows the callback's one effect, on which no handshake step has run,
\* and the call makes no Transport read or write.
C8_CallbackOnce ==
    [][ /\ \A domain \in Domains, f \in Callbacks :
               ( /\ last'.op = "connect_with"
                 /\ DNSNameRef_try_from_ascii_str(domain).ok
                 /\ connect_with(domain, ncalls + 1, f) )
               => /\ Len(conns') = Len(conns) + 1
                  /\ NewConn.session \notin 1..Len(sessions)
                  /\ NewSession.alpn = IF f = "push_alpn" THEN <<"h2">> ELSE <<>>
                  /\ NewSession.hs = "Start"
                  /\ NewConn.variant # "End"
                  /\ NewConn.output = "none"
                  /\ last'.io_reads = 0
                  /\ last'.io_writes = 0
        /\ \A f \in Callbacks :
               (last'.op = "accept_with" /\ accept_with(ncalls + 1, f))
               => /\ Len(conns') = Len(conns) + 1
                  /\ NewConn.session \notin 1..Len(sessions)
                  /\ NewSession.alpn = IF f = "push_alpn" THEN <<"h2">> ELSE <<>>
                  /\ NewSession.hs = "Start"
                  /\ NewConn.variant # "End"
                  /\ NewConn.output = "none"
                  /\ last'.io_reads = 0
                  /\ last'.io_writes = 0 ]_vars

\* a second connection was just built by connect_with, its session showing
\* the callback's effect once
C8_Witness ==
    /\ last.op = "connect_with"
    /\ last.result = "Ok"
    /\ last.conn = 2
    /\ sessions[conns[2].session].alpn = <<"h2">>
    /\ sessions[conns[2].session].hs = "Start"

\* C9: accept_with validates nothing and cannot fail: on every transport it
\* can be called, and it returns a future in the Handshaking variant whose
\* connection state is Stream, holding that transport and a new session
\* built from the acceptor's configuration.
C9_AcceptAlwaysBuilds ==
    [][ \A f \in Callbacks :
            /\ ENABLED accept_with(ncalls + 1, f)
            /\ (last'.op = "accept_with" /\ accept_with(ncalls + 1, f))
               => /\ last'.result = "Ok"
                  /\ Len(conns') = Len(conns) + 1
                  /\ NewConn.kind = "Accept"
                  /\ NewConn.variant = "Handshaking"
                  /\ NewConn.state = "Stream"
                  /\ NewConn.io = ncalls + 1
                  /\ NewConn.session \notin 1..Len(sessions)
                  /\ NewSession.side = "server"
                  /\ NewSession.config = acceptor.inner
                  /\ NewSession.hs = "Start" ]_vars

\* an accept built the second connection while the connector builds
\* early-data streams
C9_Witness ==
    /\ last.op = "accept_with"
    /\ last.conn = 2
    /\ connector.early_data
    /\ conns[2].variant = "Handshaking"
    /\ conns[2].state = "Stream"

\* C10: under any interleaving of calls and polls, every connect or accept
\* gets a session of its own, which no earlier connection owns and whose
\* creation leaves every earlier session as it was; a step on one
\* connection changes no other connection's session; and the shared
\* configurations are the same after every step as before.
C10_FreshSessions ==
    [][ /\ Len(conns') > Len(conns)
           => /\ NewConn.session \notin 1..Len(sessions)
              /\ \A j \in 1..Len(conns) : conns[j].session # NewConn.session
              /\ \A j \in 1..Len(sessions) : sessions'[j] = sessions[j]
        /\ \A i \in 1..Len(conns), j \in 1..Len(conns) :
               i # j => /\ conns[i].session # conns[j].session
                        /\ sessions'[conns[i].session] # sessions[conns[i].session]
                               => sessions'[conns[j].session] = sessions[conns[j].session]
        /\ connector'.inner = connector.inner
        /\ acceptor'.inner = acceptor.inner ]_vars

\* two connections, a connect and an accept, whose sessions have gone
\* different ways
C10_Witness ==
    /\ Len(conns) = 2
    /\ conns[1].kind = "Connect"
    /\ conns[2].kind = "Accept"
    /\ conns[1].session # conns[2].session
    /\ sessions[conns[1].session].hs = "Mid"
    /\ sessions[conns[2].session].hs = "Start"

----------------------------------------------------------------------------
(* More properties of TlsState, under SpecTlsState. *)

\* C17: the two directions are tracked independently: from every TlsState,
\* shutdown_read leaves the value of writeable() unchanged and
\* shutdown_write leaves the value of readable() unchanged.
C17_DirectionsIndependent ==
    [][ /\ Do_shutdown_read => writeable(st') = writeable(st)
        /\ Do_shutdown_write => readable(st') = readable(st) ]_vars

\* an early-data stream took a shutdown_read and can still be written
C17_Witness ==
    /\ st0 = "EarlyData"
    /\ ops = <<"shutdown_read">>
    /\ ~readable(st)
    /\ writeable(st)

\* shutdown_read, shutdown_write has been called at least once
Called(op) ==
    \E k \in 1..Len(ops) : ops[k] = op

\* C18: after any sequence of shutdown_read and shutdown_write calls on a
\* state that started as Stream or EarlyData, the state is FullyShutdown iff
\* both have been called at least once, ReadShutdown iff only shutdown_read
\* was called, WriteShutdown iff only shutdown_write was called.
C18_FullyIffBoth ==
    st0 \in {"Stream", "EarlyData"}
        => /\ st = "FullyShutdown"
                  <=> Called("shutdown_read") /\ Called("shutdown_write")
           /\ st = "ReadShutdown"
                  <=> Called("shutdown_read") /\ ~Called("shutdown_write")
           /\ st = "WriteShutdown"
                  <=> ~Called("shutdown_read") /\ Called("shutdown_write")

\* a stream that took shutdown_write three times and nothing else
C18_Witness ==
    /\ st0 = "Stream"
    /\ ops = <<"shutdown_write", "shutdown_write", "shutdown_write">>
    /\ st = "WriteShutdown"

\* C19: no operation of TlsState enters EarlyData or Stream: from any state
\* shutdown_read and shutdown_write produce one of ReadShutdown,
\* WriteShutdown or FullyShutdown, so a shutdown request made in EarlyData
\* leaves the early-data phase for good, and FullyShutdown is absorbing
\* under both operations.
C19_NeverReenters ==
    [][ (Do_shutdown_read \/ Do_shutdown_write)
            => /\ st' \in {"ReadShutdown", "WriteShutdown", "FullyShutdown"}
               /\ st \notin {"EarlyData", "Stream"}
                      => st' \notin {"EarlyData", "Stream"}
               /\ st = "FullyShutdown" => st' = "FullyShutdown" ]_vars

\* an early-data stream was fully shut and then asked to shut its read half
\* again
C19_Witness ==
    /\ st0 = "EarlyData"
    /\ ops = <<"shutdown_read", "shutdown_write", "shutdown_read">>
    /\ st = "FullyShutdown"

----------------------------------------------------------------------------
(* More properties of TlsConnector, under SpecFutures. *)

\* C16: a successful connect builds the driver in the Handshaking variant
\* with connection state Stream unless the connector's early-data flag is
\* true, and then in the EarlyData variant with connection state EarlyData
\* and an empty early-data buffer with cursor 0; at construction the variant
\* is EarlyData iff the state is EarlyData; the flag is false in a connector
\* converted from a configuration and only an early_data(true) call makes
\* it true.
C16_VariantFollowsFlag ==
    [][ /\ \A config \in ClientConfigs : ~TlsConnector_from(config).early_data
        /\ last = NoCall => ~connector.early_data
        /\ connector'.early_data # connector.early_data
               => early_data(connector'.early_data)
        /\ \A domain \in Domains, f \in Callbacks :
               ( /\ last'.op = "connect_with"
                 /\ DNSNameRef_try_from_ascii_str(domain).ok
                 /\ connect_with(domain, ncalls + 1, f) )
               => /\ NewConn.variant = IF connector.early_data
                                       THEN "EarlyData" ELSE "Handshaking"
                  /\ NewConn.state = IF connector.early_data
                                     THEN "EarlyData" ELSE "Stream"
                  /\ NewConn.variant = "EarlyData" <=> NewConn.state = "EarlyData"
                  /\ NewConn.early_data = <<0, <<>>>> ]_vars

\* a connector converted from a configuration, its flag set by the caller,
\* has built an early-data driver
C16_Witness ==
    /\ built.how = "from"
    /\ connector.early_data
    /\ last.op = "connect_with"
    /\ last.result = "Ok"
    /\ conns[last.conn].variant = "EarlyData"
    /\ conns[last.conn].state = "EarlyData"
    /\ conns[last.conn].early_data = <<0, <<>>>>

----------------------------------------------------------------------------
(* Properties of a connect and an accept on the two ends of one pipe,      *)
(* under SpecPair.                                                         *)

\* the two ends of the pipe hold a connect future and an accept future
PairedUp ==
    /\ Len(conns) = 2
    /\ {conns[1].kind, conns[2].kind} = {"Connect", "Accept"}
    /\ {conns[1].io, conns[2].io} = PipeEnds

BothEstablished ==
    /\ Len(conns) = 2
    /\ Established(1)
    /\ Established(2)

IsPrefix(a, b) ==
    Len(a) <= Len(b) /\ a = SubSeq(b, 1, Len(a))

\* C11: a connect future on one end of a transport pair and an accept
\* future on the other, each polled again whenever its Transport is ready,
\* both eventually resolve to established streams; what one side then reads
\* is at every moment the beginning of what the other side has written,
\* byte for byte and in order, and eventually all of it.
C11_RoundTrip ==
    /\ PairedUp ~> (BothEstablished /\ \A t \in PipeEnds : received[t] = Message)
    /\ [](\A t \in PipeEnds : IsPrefix(received[t], written[Peer(t)]))

\* both futures have resolved, and each side has read the whole of what the
\* other wrote
C11_Witness ==
    /\ PairedUp
    /\ BothEstablished
    /\ \A t \in PipeEnds : written[t] = Message /\ received[t] = Message

----------------------------------------------------------------------------
(* Properties of the handshake driver, under Spec and SpecFutures. *)

\* a poll of connection i, whatever the Transport and the peer answer
Poll_of(i) ==
    \E outcome \in HandshakeOutcomes :
        Connect_poll(i, outcome) \/ Accept_poll(i, outcome)

\* C12: when the Session Engine reports a protocol error during the
\* handshake, the poll resolves the future with that error; from then on the
\* connection is terminal: no poll of it is possible (the driver does not
\* retry), it never becomes an established stream, its session is dropped
\* and never changes, and no read, write, flush or shutdown can be made on
\* it, so no plaintext is exchanged.
C12_ProtocolErrorTerminal ==
    [][ \A i \in 1..Len(conns) :
            /\ ( /\ last'.op = "poll"
                 /\ \/ Connect_poll(i, "protocol_error")
                    \/ Accept_poll(i, "protocol_error") )
               => /\ last'.result = "ProtocolError"
                  /\ conns'[i].output = "Err"
                  /\ conns'[i].variant = "End"
            /\ conns[i].output = "Err"
               => /\ conns'[i] = conns[i]
                  /\ sessions'[conns[i].session] = sessions[conns[i].session]
                  /\ sessions[conns[i].session].hs = "Dropped"
                  /\ ~wants_write(sessions[conns[i].session])
                  /\ ~ENABLED Poll_of(i)
                  /\ \A outcome \in ReadOutcomes : ~ENABLED TlsStream_read(i, outcome)
                  /\ \A outcome \in WriteOutcomes :
                         /\ ~ENABLED TlsStream_flush(i, outcome)
                         /\ ~ENABLED TlsStream_shutdown(i, outcome)
                         /\ \A b \in PlainBytes :
                                ~ENABLED TlsStream_write(i, b, outcome) ]_vars

\* a connect whose handshake had started has just ended in a protocol error
C12_Witness ==
    /\ last.op = "poll"
    /\ last.result = "ProtocolError"
    /\ last.io_reads = 1
    /\ conns[last.conn].kind = "Connect"
    /\ conns[last.conn].output = "Err"
    /\ sessions[conns[last.conn].session].hs = "Dropped"

\* C15: the driver resolves to an established stream only in a poll after
\* which the session reports the handshake complete: while a session still
\* reports that it is handshaking its future is pending or failed, never a
\* stream; and the stream handed to the caller holds the same session, the
\* same transport and the same connection state that the driver held.
C15_ResolvesWhenComplete ==
    [][ \A i \in 1..Len(conns) :
            /\ is_handshaking(sessions[conns[i].session])
                   => conns[i].output \in {"none", "Err"}
            /\ (conns[i].output # "Ok" /\ conns'[i].output = "Ok")
                   => /\ Poll_of(i)
                      /\ last'.result = "Ready"
                      /\ ~is_handshaking(sessions'[conns'[i].session])
                      /\ conns'[i] = [conns[i] EXCEPT !.variant = "End",
                                                      !.output = "Ok"] ]_vars

\* a connect built for early data has resolved, its handshake complete and
\* its connection state Stream
C15_Witness ==
    /\ last.op = "poll"
    /\ last.result = "Ready"
    /\ conns[last.conn].kind = "Connect"
    /\ conns[last.conn].output = "Ok"
    /\ conns[last.conn].state = "Stream"
    /\ ~is_handshaking(sessions[conns[last.conn].session])
    /\ connector.early_data

----------------------------------------------------------------------------
(* Properties of the adapter and the handshake driver on a pipe, under     *)
(* SpecPair.                                                               *)

\* the Transport of connection i has nothing for, or takes nothing from,
\* the attempt the adapter is about to make
NotReady(i, outcome) ==
    \/ outcome = "would_block"
    \/ /\ ~wants_write(sessions[conns[i].session])
       /\ pipe[conns[i].io] = <<>>

\* C13: every invocation of the adapter, by a poll of the handshake driver
\* or by a stream operation, makes at most one Transport read attempt and
\* at most one Transport write attempt; and a poll that finds the Transport
\* not ready returns pending with no byte moved, instead of trying again.
C13_OneAttemptEach ==
    [][ /\ last'.io_reads <= 1
        /\ last'.io_writes <= 1
        /\ \A i \in 1..Len(conns), outcome \in PipeOutcomes :
               ( /\ last'.op = "poll"
                 /\ Connect_poll(i, outcome) \/ Accept_poll(i, outcome) )
               => /\ last'.io_reads + last'.io_writes = 1
                  /\ NotReady(i, outcome)
                         => /\ last'.result = "Pending"
                            /\ conns'[i].output = "none"
                            /\ UNCHANGED <<sessions, pipe>> ]_vars

\* an accept was polled while the client's flight had not reached the pipe,
\* and came back pending after one read attempt
C13_Witness ==
    /\ last.op = "poll"
    /\ last.result = "Pending"
    /\ last.io_reads = 1
    /\ last.io_writes = 0
    /\ conns[last.conn].kind = "Accept"
    /\ pipe[conns[last.conn].io] = <<>>
    /\ sessions[conns[last.conn].session].hs = "Start"

\* the connect future and the accept future of the pair, and their sessions
Client == IF conns[1].kind = "Connect" THEN conns[1] ELSE conns[2]

Server == IF conns[1].kind = "Accept" THEN conns[1] ELSE conns[2]

\* every byte of a flight is in exactly one place, in order: fed to the
\* receiving session, in the pipe, or still in the sending session
FlightsConserved ==
    LET cs == sessions[Client.session]
        ss == sessions[Server.session]
        up == ss.rx \o pipe[Server.io] \o cs.tx
        down == cs.rx \o pipe[Client.io] \o ss.tx
    IN  /\ ss.hs = "Start" => up = ClientFlight
        /\ (cs.hs = "Mid" /\ ss.hs = "Mid") => down = ServerFlight
        /\ (cs.hs = "Mid" /\ ss.hs = "Done") => IsPrefix(ServerFlight, down)

\* a poll has come back pending with a flight moved in part only
MidFlight ==
    /\ last.op = "poll"
    /\ last.result = "Pending"
    /\ LET s == sessions[conns[last.conn].session]
       IN  \/ s.rx # <<>>
           \/ wants_write(s) /\ s.tx \notin {ClientFlight, ServerFlight}

\* C14: when the Transport takes or delivers only part of the handshake
\* ciphertext and then reports would-block (a pipe that moves one byte at a
\* time), later polls resume from the partial progress the sessions retain:
\* no byte of a flight is duplicated or dropped, no protocol error arises,
\* and the handshake completes on both ends.
C14_PartialProgress ==
    /\ [](PairedUp => FlightsConserved)
    /\ [](PairedUp => \A i \in 1..Len(conns) : conns[i].output # "Err")
    /\ (PairedUp /\ MidFlight) ~> BothEstablished

\* the server has been fed the first byte of the client's flight, the
\* second is still in the client's session, and the server's poll has come
\* back pending
C14_Witness ==
    /\ PairedUp
    /\ MidFlight
    /\ conns[last.conn].kind = "Accept"
    /\ sessions[Server.session].rx = <<"c1">>
    /\ sessions[Client.session].tx = <<"c2">>
    /\ pipe[Server.io] = <<>>

====
